---- MODULE Spec2Model ----
(***************************************************************************)
(* Premium Shoes API (src/main.py, src/schemas.py): the request handlers,  *)
(* the record schemas and the seed routine, over a document store of four  *)
(* collections.                                                            *)
(*                                                                         *)
(* Amounts are fixed-point integers, Scale units to the cent.  Strings     *)
(* that the code parses (object ids, e-mail addresses) are sequences of    *)
(* one-character strings.  An optional value is the empty set (None) or a  *)
(* singleton.                                                              *)
(***************************************************************************)
EXTENDS Integers, Sequences, FiniteSets, TLC

VARIABLES db, shoeproduct, sitereview, contactmessage, order,
          request, response, pre, served, seed, seedLog

vars == <<db, shoeproduct, sitereview, contactmessage, order,
          request, response, pre, served, seed, seedLog>>

store == [shoeproduct |-> shoeproduct, sitereview |-> sitereview,
          contactmessage |-> contactmessage, order |-> order]

(* ------------------------------ bounds --------------------------------- *)

\* sub-cent units per cent
Scale == 10
\* longest item list of an order request
MaxItems == 2
\* requests other than seed served in one behaviour
MaxRequests == 1
\* seed requests recorded in one behaviour
MaxSeedCalls == 2
\* clients issuing seed requests
NumClients == 2

(* ------------------------------ helpers -------------------------------- *)

None == {}

Some(v) == {v}

The(o) == CHOOSE x \in o : TRUE

OrElse(o, d) == IF o = None THEN d ELSE The(o)

RECURSIVE SumSeq(_)
SumSeq(s) == IF s = <<>> THEN 0 ELSE Head(s) + SumSeq(Tail(s))

SeqsUpTo(S, n) == UNION {[1..k -> S] : k \in 0..n}

\* round(x, 2): to the nearest cent, ties to the even cent
Round2(x) ==
    LET q == x \div Scale
        r == x % Scale
    IN  IF 2 * r < Scale THEN q * Scale
        ELSE IF 2 * r > Scale THEN (q + 1) * Scale
        ELSE IF q % 2 = 0 THEN q * Scale ELSE (q + 1) * Scale

\* str(float) of an amount already rounded to the cent: sign, whole part and
\* the fraction digits without a trailing zero ("105.0", "0.05", "1.5")
Digits2(c) ==
    IF c % 10 = 0 THEN <<c \div 10>> ELSE <<c \div 10, c % 10>>

FormatFloat(x) ==
    LET c == x \div Scale
        a == IF c < 0 THEN 0 - c ELSE c
    IN  [neg |-> c < 0, whole |-> a \div 100, frac |-> Digits2(a % 100)]

ParseFloat(t) ==
    LET f == IF Len(t.frac) = 1 THEN 10 * t.frac[1]
             ELSE 10 * t.frac[1] + t.frac[2]
        a == 100 * t.whole + f
    IN  (IF t.neg THEN 0 - a ELSE a) * Scale

(* ------------------------------ object ids ----------------------------- *)

HexDigits == <<"0", "1", "2", "3", "4", "5", "6", "7",
               "8", "9", "a", "b", "c", "d", "e", "f">>

UpperHex == <<"0", "1", "2", "3", "4", "5", "6", "7",
              "8", "9", "A", "B", "C", "D", "E", "F">>

OidLen == 24

HexValue(ch) ==
    IF \E i \in 1..16 : HexDigits[i] = ch
    THEN (CHOOSE i \in 1..16 : HexDigits[i] = ch) - 1
    ELSE (CHOOSE i \in 1..16 : UpperHex[i] = ch) - 1

IsHex(ch) == \E i \in 1..16 : HexDigits[i] = ch \/ UpperHex[i] = ch

RECURSIVE HexSeq(_, _, _)
HexSeq(alphabet, n, len) ==
    IF len = 0 THEN <<>>
    ELSE Append(HexSeq(alphabet, n \div 16, len - 1), alphabet[(n % 16) + 1])

\* str(ObjectId): 24 lower-case hex digits
StrOid(n) == HexSeq(HexDigits, n, OidLen)

\* ObjectId(s) raises unless s is 24 hex digits of either case
OidParses(s) == Len(s) = OidLen /\ \A i \in 1..Len(s) : IsHex(s[i])

RECURSIVE HexFold(_, _)
HexFold(s, acc) ==
    IF s = <<>> THEN acc ELSE HexFold(Tail(s), 16 * acc + HexValue(Head(s)))

ObjectId(s) == HexFold(s, 0)

(* ------------------------------ record schemas ------------------------- *)

Brands == <<"Nike", "Jordan", "Adidas", "Puma", "Gucci">>

ShoeBrands == {"Nike", "Jordan", "Adidas", "Puma", "Gucci", "Reebok",
               "New Balance", "ASICS", "Other"}

UpiProviders == {"PhonePe", "Paytm", "Google Pay"}

OrderStatuses == {"pending", "paid", "failed"}

\* Orderitem: quantity >= 1, default 1; price is any number
ValidOrderitem(it) == it.quantity = None \/ The(it.quantity) >= 1

Orderitem(it) == [price |-> it.price, quantity |-> OrElse(it.quantity, 1)]

\* Order: items, subtotal and total are required; subtotal, shipping and
\* total are >= 0; upi_provider and status are enumerations
ValidOrder(raw) ==
    /\ raw.items # None
    /\ \A i \in 1..Len(The(raw.items)) : ValidOrderitem(The(raw.items)[i])
    /\ raw.subtotal # None /\ The(raw.subtotal) >= 0
    /\ raw.shipping = None \/ The(raw.shipping) >= 0
    /\ raw.total # None /\ The(raw.total) >= 0
    /\ raw.upi_provider = None \/ The(raw.upi_provider) \in UpiProviders
    /\ raw.status = None \/ The(raw.status) \in OrderStatuses

Order(raw) ==
    [items        |-> [i \in 1..Len(The(raw.items)) |-> Orderitem(The(raw.items)[i])],
     subtotal     |-> The(raw.subtotal),
     shipping     |-> OrElse(raw.shipping, 0),
     total        |-> The(raw.total),
     upi_provider |-> raw.upi_provider,
     status       |-> OrElse(raw.status, "pending")]

\* EmailStr: one "@", a non-empty local part, a domain with an inner dot
Count(s, ch) == Cardinality({i \in 1..Len(s) : s[i] = ch})

Pos(s, ch) == CHOOSE i \in 1..Len(s) : s[i] = ch

EmailStr(s) ==
    /\ Count(s, "@") = 1
    /\ Pos(s, "@") > 1
    /\ \E i \in (Pos(s, "@") + 2)..(Len(s) - 1) : s[i] = "."
    /\ s[Len(s)] # "." /\ s[Pos(s, "@") + 1] # "."

NoEmailCheck(raw) ==
    raw.name # None /\ raw.email # None /\ raw.message # None

\* Contactmessage: name, email and message are required
ValidContactmessage(raw) ==
    /\ raw.name # None
    /\ raw.email # None /\ EmailStr(The(raw.email))
    /\ raw.message # None

Contactmessage(raw) ==
    [name |-> The(raw.name), email |-> The(raw.email), message |-> The(raw.message)]

Sitereview(name, rating, comment) ==
    [name |-> name, rating |-> rating, comment |-> comment]

(* ------------------------------ seed batches --------------------------- *)

PerBrand == 6

\* the product seed_data builds for brand b and index idx
Shoeproduct(b, idx) ==
    [title          |-> <<b, "Elite", idx>>,
     brand          |-> b,
     price          |-> (99 + idx * 20 + (IF b # "Gucci" THEN 0 ELSE 300)) * 100 * Scale,
     colors         |-> <<"Black", "White", "Red">>,
     sizes          |-> <<38, 39, 40, 41, 42, 43, 44>>,
     description    |-> <<"Premium", b>>,
     images         |-> <<<<"img", b>>>>,
     is_new         |-> idx >= 5,
     is_best_seller |-> idx % 2 = 0,
     rating         |-> 45,
     reviews_count  |-> 120 + idx,
     gender         |-> "Unisex",
     material       |-> None,
     popularity     |-> 0]

\* the batch in the order of the two loops: brands outer, idx inner
sample_products ==
    [n \in 1..(Len(Brands) * PerBrand) |->
        Shoeproduct(Brands[((n - 1) \div PerBrand) + 1], ((n - 1) % PerBrand) + 1)]

reviews ==
    <<Sitereview("Aarav", 50, "Top-notch quality and super fast delivery!"),
      Sitereview("Isha", 45, "Loved the comfort. The packaging felt premium."),
      Sitereview("Kabir", 48, "Great prices for authentic sneakers.")>>

(* ------------------------------ document store ------------------------- *)

WithoutId(d) == [k \in DOMAIN d \ {"_id"} |-> d[k]]

\* The store gives every inserted document an identifier that no other
\* document of the collection has.  The value is a function of the document
\* and of the number of equal documents already stored, so that it does not
\* record the order in which concurrent requests inserted.
SeedDocs == sample_products \o reviews

NumSlots == Len(SeedDocs) + 1

Slot(data) ==
    IF \E i \in 1..Len(SeedDocs) : SeedDocs[i] = data
    THEN CHOOSE i \in 1..Len(SeedDocs) : SeedDocs[i] = data
    ELSE 0

NewOid(coll, data) ==
    Slot(data) + NumSlots * Cardinality({d \in coll : Slot(WithoutId(d)) = Slot(data)})

\* create_document: the collection with the record added under a new id
Inserted(coll, data) == coll \cup {("_id" :> NewOid(coll, data)) @@ data}

count_documents(coll) == Cardinality(coll)

find_one(coll, oid) == {d \in coll : d["_id"] = oid}

(* ------------------------------ requests ------------------------------- *)

Clients == 1..NumClients

NoRequest == [endpoint |-> "none"]

NoResponse == [endpoint |-> "none", code |-> 0, storeFailed |-> FALSE, body |-> None]

Reply(ep, code, failed, body) ==
    [endpoint |-> ep, code |-> code, storeFailed |-> failed, body |-> body]

SeedIdle == [pc |-> "idle", added_p |-> 0, added_r |-> 0]

\* the handlers below run one request at a time
NoSeedRunning == \A c \in Clients : seed[c].pc = "idle"

\* a store call succeeds or raises; without a connection it can only raise
StoreOutcomes == IF db THEN {TRUE, FALSE} ELSE {FALSE}

(* ------------------------------ POST /api/contact ---------------------- *)

Emails == {<<"a", "@", "b", ".", "c">>, <<"a", "b", ".", "c">>,
           <<"@", "b", ".", "c">>, <<"a", "@", "b">>}

ContactBodies ==
    {[name |-> n, email |-> e, message |-> m] :
        n \in {None, Some("Asha")},
        e \in {None} \cup {Some(x) : x \in Emails},
        m \in {None, Some("hello")}}

create_contact(raw) ==
    /\ NoSeedRunning
    /\ served < MaxRequests
    /\ served' = served + 1
    /\ request' = [endpoint |-> "create_contact", body |-> raw]
    /\ pre' = store
    /\ IF ~ValidContactmessage(raw)
       THEN /\ response' = Reply("create_contact", 422, FALSE, None)
            /\ UNCHANGED contactmessage
       ELSE \E ok \in StoreOutcomes :
              IF ok
              THEN LET msg == Contactmessage(raw)
                       inserted_id == StrOid(NewOid(contactmessage, msg))
                   IN  /\ contactmessage' = Inserted(contactmessage, msg)
                       /\ response' = Reply("create_contact", 200, FALSE,
                                            [id |-> inserted_id, status |-> "received"])
              ELSE /\ response' = Reply("create_contact", 500, TRUE, None)
                   /\ UNCHANGED contactmessage
    /\ UNCHANGED <<db, shoeproduct, sitereview, order, seed, seedLog>>

(* ------------------------------ POST /api/orders ----------------------- *)

ItemA == [price |-> Scale \div 2, quantity |-> None]

ItemB == [price |-> 0 - 2, quantity |-> Some(2)]

ItemZero == [price |-> Scale \div 2, quantity |-> Some(0)]

ClientAmounts == {<<0, 0>>, <<7 * Scale, 99 * Scale>>}

ValidOrderBodies ==
    {[items |-> Some(its), subtotal |-> Some(a[1]), total |-> Some(a[2]),
      shipping |-> sh, upi_provider |-> u, status |-> st] :
        its \in SeqsUpTo({ItemA, ItemB}, MaxItems),
        a \in ClientAmounts,
        sh \in {None, Some(Scale)},
        u \in {None, Some("Paytm")},
        st \in {None, Some("paid")}}

BaseOrderBody ==
    [items |-> Some(<<ItemA>>), subtotal |-> Some(0), total |-> Some(0),
     shipping |-> Some(Scale), upi_provider |-> None, status |-> None]

\* the base body with one field made invalid
InvalidOrderBodies ==
    {[BaseOrderBody EXCEPT !.items = None],
     [BaseOrderBody EXCEPT !.items = Some(<<ItemA, ItemZero>>)],
     [BaseOrderBody EXCEPT !.subtotal = None],
     [BaseOrderBody EXCEPT !.subtotal = Some(0 - 1)],
     [BaseOrderBody EXCEPT !.total = None],
     [BaseOrderBody EXCEPT !.total = Some(0 - 1)],
     [BaseOrderBody EXCEPT !.shipping = Some(0 - 1)],
     [BaseOrderBody EXCEPT !.upi_provider = Some("Cash")],
     [BaseOrderBody EXCEPT !.status = Some("shipped")]}

OrderBodies == ValidOrderBodies \cup InvalidOrderBodies

\* sum(i.price * i.quantity for i in order.items)
ItemsTotal(items) == SumSeq([i \in 1..Len(items) |-> items[i].price * items[i].quantity])

\* the order as create_order stores it: subtotal and total recomputed
Recomputed(o) ==
    LET subtotal == ItemsTotal(o.items)
        total == subtotal + o.shipping
    IN  [o EXCEPT !.subtotal = Round2(subtotal), !.total = Round2(total)]

create_order(raw) ==
    /\ NoSeedRunning
    /\ served < MaxRequests
    /\ served' = served + 1
    /\ request' = [endpoint |-> "create_order", body |-> raw]
    /\ pre' = store
    /\ IF ~ValidOrder(raw)
       THEN /\ response' = Reply("create_order", 422, FALSE, None)
            /\ UNCHANGED order
       ELSE \E ok \in StoreOutcomes :
              IF ok
              THEN LET o == Recomputed(Order(raw))
                       order_id == StrOid(NewOid(order, o))
                       upi_provider == OrElse(o.upi_provider, "PhonePe")
                       upi_link == [pn |-> "PremiumShoes", am |-> FormatFloat(o.total),
                                    cu |-> "INR", pa |-> "premium@upi", tn |-> order_id]
                   IN  /\ order' = Inserted(order, o)
                       /\ response' = Reply("create_order", 200, FALSE,
                                            [id |-> order_id, status |-> "pending",
                                             upi_provider |-> upi_provider,
                                             upi_link |-> upi_link])
              ELSE /\ response' = Reply("create_order", 500, TRUE, None)
                   /\ UNCHANGED order
    /\ UNCHANGED <<db, shoeproduct, sitereview, contactmessage, seed, seedLog>>

(* ------------------------------ to_str_id ------------------------------ *)

DatetimeFields == {"created_at", "updated_at"}

\* datetime.isoformat()
isoformat(v) == <<"iso", v.t>>

\* to_str_id: _id leaves as the string field id, datetimes become text
to_str_id(doc) ==
    IF doc = <<>> THEN doc ELSE
    [k \in (DOMAIN doc \ {"_id"}) \cup {"id"} |->
        IF k = "id" THEN StrOid(doc["_id"])
        ELSE IF k \in DatetimeFields THEN isoformat(doc[k])
        ELSE doc[k]]

(* ------------------------------ GET / and GET /test -------------------- *)

read_root ==
    /\ NoSeedRunning
    /\ served < MaxRequests
    /\ served' = served + 1
    /\ request' = [endpoint |-> "read_root"]
    /\ pre' = store
    /\ response' = Reply("read_root", 200, FALSE,
                         [message |-> "Premium Shoes Backend Running"])
    /\ UNCHANGED <<db, shoeproduct, sitereview, contactmessage, order, seed, seedLog>>

\* db.list_collection_names(): the collections that hold a document
list_collection_names == {n \in DOMAIN store : store[n] # {}}

test_database ==
    /\ NoSeedRunning
    /\ served < MaxRequests
    /\ served' = served + 1
    /\ request' = [endpoint |-> "test_database"]
    /\ pre' = store
    /\ \E url_set \in BOOLEAN, name_set \in BOOLEAN :
         LET base == [backend |-> "Running", database |-> "Not Available",
                      database_url |-> url_set, database_name |-> name_set,
                      connection_status |-> "Not Connected", collections |-> {}]
         IN  IF db
             THEN \E ok \in StoreOutcomes :
                    IF ok
                    THEN response' = Reply("test_database", 200, FALSE,
                            [base EXCEPT !.connection_status = "Connected",
                                         !.collections = list_collection_names,
                                         !.database = "Connected & Working"])
                    ELSE response' = Reply("test_database", 200, TRUE,
                            [base EXCEPT !.connection_status = "Connected",
                                         !.database = "error text"])
             ELSE response' = Reply("test_database", 200, FALSE,
                            [base EXCEPT !.database = "Database not initialized"])
    /\ UNCHANGED <<db, shoeproduct, sitereview, contactmessage, order, seed, seedLog>>

(* ------------------------------ GET /api/products ---------------------- *)

\* the truth value of an optional string: None and "" are false
Truthy(o) == o # None /\ The(o) # ""

Given(o) == o # None

Cond(op, v) == [op |-> op, v |-> v]

Entry(present, key, cond) == IF present THEN key :> cond ELSE <<>>

BuildQueryTruthyFlags(p) ==
       Entry(Truthy(p.brand), "brand", Cond("eq", p.brand))
    @@ Entry(Given(p.size), "sizes", Cond("in", p.size))
    @@ Entry(Truthy(p.color), "colors", Cond("in", p.color))
    @@ Entry(Given(p.min_price) \/ Given(p.max_price), "price",
             Cond("range", [gte |-> p.min_price, lte |-> p.max_price]))
    @@ Entry(p.is_new = Some(TRUE), "is_new", Cond("eq", p.is_new))
    @@ Entry(p.best = Some(TRUE), "is_best_seller", Cond("eq", p.best))

\* the filter q of list_products: key -> condition
BuildQuery(p) ==
       Entry(Truthy(p.brand), "brand", Cond("eq", p.brand))
    @@ Entry(Given(p.size), "sizes", Cond("in", p.size))
    @@ Entry(Truthy(p.color), "colors", Cond("in", p.color))
    @@ Entry(Given(p.min_price) \/ Given(p.max_price), "price",
             Cond("range", [gte |-> p.min_price, lte |-> p.max_price]))
    @@ Entry(Given(p.is_new), "is_new", Cond("eq", p.is_new))
    @@ Entry(Given(p.best), "is_best_seller", Cond("eq", p.best))

\* the store's reading of one condition on one field value
Holds(cond, value) ==
    CASE cond.op = "eq"    -> value = The(cond.v)
      [] cond.op = "in"    -> \E i \in 1..Len(value) : value[i] = The(cond.v)
      [] cond.op = "range" -> /\ cond.v.gte = None \/ value >= The(cond.v.gte)
                              /\ cond.v.lte = None \/ value <= The(cond.v.lte)

Matches(q, doc) == \A k \in DOMAIN q : k \in DOMAIN doc /\ Holds(q[k], doc[k])

\* get_documents: up to limit of the matching documents, in no promised order
get_documents(coll, q, limit) ==
    LET hit == {d \in coll : Matches(q, d)}
        n == IF Cardinality(hit) < limit THEN Cardinality(hit) ELSE limit
    IN  {r \in SUBSET hit : Cardinality(r) = n}

DefaultLimit == 60

list_products(p) ==
    /\ NoSeedRunning
    /\ served < MaxRequests
    /\ served' = served + 1
    /\ request' = [endpoint |-> "list_products", params |-> p]
    /\ pre' = store
    /\ \E ok \in StoreOutcomes :
         IF ok
         THEN \E docs \in get_documents(shoeproduct, BuildQuery(p), p.limit) :
                response' = Reply("list_products", 200, FALSE,
                                  {to_str_id(d) : d \in docs})
         ELSE response' = Reply("list_products", 500, TRUE, None)
    /\ UNCHANGED <<db, shoeproduct, sitereview, contactmessage, order, seed, seedLog>>

(* ------------------------------ GET /api/products/{id} ----------------- *)

get_product_reply_no_try(product_id, ok) ==
    IF ~OidParses(product_id)
    THEN Reply("get_product", 500, FALSE, None)
    ELSE IF ~ok
    THEN Reply("get_product", 500, db, None)
    ELSE LET doc == find_one(shoeproduct, ObjectId(product_id))
         IN  IF doc = None
             THEN Reply("get_product", 404, FALSE, [detail |-> "Product not found"])
             ELSE Reply("get_product", 200, FALSE, to_str_id(The(doc)))

\* the try block turns every exception (a malformed id, db being None, a
\* failed store call) into doc = None; ok says whether the store call succeeds
get_product_reply(product_id, ok) ==
    LET raised == ~OidParses(product_id) \/ ~ok
        doc == IF raised THEN None ELSE find_one(shoeproduct, ObjectId(product_id))
    IN  IF doc = None
        THEN Reply("get_product", 404, db /\ OidParses(product_id) /\ ~ok,
                   [detail |-> "Product not found"])
        ELSE Reply("get_product", 200, FALSE, to_str_id(The(doc)))

get_product(product_id) ==
    /\ NoSeedRunning
    /\ served < MaxRequests
    /\ served' = served + 1
    /\ request' = [endpoint |-> "get_product", product_id |-> product_id]
    /\ pre' = store
    /\ \E ok \in StoreOutcomes : response' = get_product_reply(product_id, ok)
    /\ UNCHANGED <<db, shoeproduct, sitereview, contactmessage, order, seed, seedLog>>

(* ------------------------------ GET /api/reviews ----------------------- *)

ReviewLimit == 10

get_reviews(limit) ==
    /\ NoSeedRunning
    /\ served < MaxRequests
    /\ served' = served + 1
    /\ request' = [endpoint |-> "get_reviews", limit |-> limit]
    /\ pre' = store
    /\ \E ok \in StoreOutcomes :
         IF ok
         THEN \E docs \in get_documents(sitereview, <<>>, limit) :
                response' = Reply("get_reviews", 200, FALSE,
                                  {to_str_id(d) : d \in docs})
         ELSE response' = Reply("get_reviews", 500, TRUE, None)
    /\ UNCHANGED <<db, shoeproduct, sitereview, contactmessage, order, seed, seedLog>>

(* ------------------------------ read specification --------------------- *)

\* a product that did not come from the seed routine
OtherProduct ==
    [title |-> <<"Other", "Sandal", 0>>, brand |-> "Other", price |-> 0,
     colors |-> <<"Green">>, sizes |-> <<0, 40>>, description |-> None,
     images |-> <<>>, is_new |-> FALSE, is_best_seller |-> TRUE, rating |-> 30,
     reviews_count |-> 0, gender |-> "Women", material |-> Some("Leather"),
     popularity |-> 3, created_at |-> [t |-> 17]]

ProductPool ==
    Inserted({}, Shoeproduct("Nike", 1)) \cup Inserted({}, Shoeproduct("Gucci", 6))
        \cup Inserted({}, OtherProduct)

SeededReviews ==
    Inserted(Inserted(Inserted({}, reviews[1]), reviews[2]), reviews[3])

AllAbsent ==
    [brand |-> None, size |-> None, min_price |-> None, max_price |-> None,
     color |-> None, is_new |-> None, best |-> None, limit |-> DefaultLimit]

\* every combination of absent and present parameters
PresenceParams ==
    {[brand |-> b, size |-> sz, min_price |-> lo, max_price |-> hi,
      color |-> c, is_new |-> n, best |-> bs, limit |-> DefaultLimit] :
        b \in {None, Some("Nike")}, sz \in {None, Some(40)},
        lo \in {None, Some(200 * 100 * Scale)}, hi \in {None, Some(600 * 100 * Scale)},
        c \in {None, Some("Red")}, n \in {None, Some(TRUE)}, bs \in {None, Some(TRUE)}}

\* one parameter given with a value that is false as a condition
FalsyParams ==
    {[AllAbsent EXCEPT !.brand = Some("")],
     [AllAbsent EXCEPT !.color = Some("")],
     [AllAbsent EXCEPT !.size = Some(0)],
     [AllAbsent EXCEPT !.min_price = Some(0)],
     [AllAbsent EXCEPT !.min_price = Some(1)],
     [AllAbsent EXCEPT !.max_price = Some(0)],
     [AllAbsent EXCEPT !.is_new = Some(FALSE)],
     [AllAbsent EXCEPT !.best = Some(FALSE)],
     [AllAbsent EXCEPT !.brand = Some("Gucci"), !.is_new = Some(FALSE)],
     [AllAbsent EXCEPT !.brand = Some(""), !.best = Some(TRUE)],
     [AllAbsent EXCEPT !.limit = 1],
     [AllAbsent EXCEPT !.limit = 1, !.best = Some(TRUE)]}

ListParams == PresenceParams \cup FalsyParams

Upper(s) ==
    [i \in 1..Len(s) |->
        IF \E j \in 1..16 : HexDigits[j] = s[i]
        THEN UpperHex[CHOOSE j \in 1..16 : HexDigits[j] = s[i]]
        ELSE s[i]]

\* ids of pool products and one id no product has, each also in upper case,
\* one digit short, one digit long and with a letter that is no hex digit
ProductIds ==
    LET oids == {d["_id"] : d \in ProductPool} \cup {NumSlots + 1}
        good == {StrOid(n) : n \in oids}
    IN  good \cup {Upper(s) : s \in good}
             \cup {SubSeq(s, 1, OidLen - 1) : s \in good}
             \cup {s \o <<"0">> : s \in good}
             \cup {[s EXCEPT ![OidLen] = "g"] : s \in good}
             \cup {<<>>}

InitRead ==
    /\ db \in BOOLEAN
    /\ shoeproduct \in SUBSET ProductPool
    /\ sitereview \in {{}, SeededReviews}
    /\ contactmessage = {} /\ order = {}
    /\ request = NoRequest /\ response = NoResponse
    /\ pre = store
    /\ served = 0
    /\ seed = [c \in Clients |-> SeedIdle]
    /\ seedLog = <<>>

NextRead ==
    \/ read_root
    \/ test_database
    \/ \E p \in ListParams : list_products(p)
    \/ \E id \in ProductIds : get_product(id)
    \/ \E limit \in {1, ReviewLimit} : get_reviews(limit)

SpecRead == InitRead /\ [][NextRead]_vars

(* ------------------------------ write specification -------------------- *)

\* collections as earlier requests left them
EarlierOrders == {{}, Inserted({}, Recomputed(Order(BaseOrderBody)))}

EarlierContacts ==
    {{}, Inserted({}, [name |-> "Ravi", email |-> <<"r", "@", "s", ".", "t">>,
                       message |-> "hi"])}

InitWrite ==
    /\ db \in BOOLEAN
    /\ shoeproduct = {} /\ sitereview = {}
    /\ contactmessage \in EarlierContacts
    /\ order \in EarlierOrders
    /\ request = NoRequest /\ response = NoResponse
    /\ pre = store
    /\ served = 0
    /\ seed = [c \in Clients |-> SeedIdle]
    /\ seedLog = <<>>

NextWrite ==
    \/ \E raw \in ContactBodies : create_contact(raw)
    \/ \E raw \in OrderBodies : create_order(raw)

SpecWrite == InitWrite /\ [][NextWrite]_vars

(* ------------------------------ POST /api/seed ------------------------- *)

\* seed_data makes one store call per step: the count of products, one
\* insert per product, the count of reviews, one insert per review.
\* seed[c] is the position of client c's request with its two counters.

SeedRunning == {c \in Clients : seed[c].pc # "idle"}

SeedLogged(c, code, added_p, added_r, products, site_reviews) ==
    Append(seedLog, [client |-> c, code |-> code, products |-> added_p,
                     reviews |-> added_r, nproducts |-> Cardinality(products),
                     nreviews |-> Cardinality(site_reviews)])

\* the request of client c ends with the SeedResponse
SeedReturns(c, added_p, added_r, products, site_reviews) ==
    /\ seed' = [seed EXCEPT ![c] = SeedIdle]
    /\ seedLog' = SeedLogged(c, 200, added_p, added_r, products, site_reviews)
    /\ response' = Reply("seed_data", 200, FALSE,
                         [products |-> added_p, reviews |-> added_r])

\* the store call of client c raises and the request ends in a server error
SeedRaises(c) ==
    /\ seed' = [seed EXCEPT ![c] = SeedIdle]
    /\ seedLog' = SeedLogged(c, 500, seed[c].added_p, seed[c].added_r,
                             shoeproduct, sitereview)
    /\ response' = Reply("seed_data", 500, TRUE, None)

\* the count is a store call only when db is set: "... if db else 0"
CountOutcomes == IF db THEN {TRUE, FALSE} ELSE {TRUE}

SeedProductsAlways(count_products) == count_products >= 0

\* if count_products == 0
SeedProducts(count_products) == count_products = 0

SeedReviewsAlways(count_reviews) == count_reviews >= 0

\* if count_reviews == 0
SeedReviews(count_reviews) == count_reviews = 0

\* the request begins: count_products is read, or taken as 0 without a store
seed_count_products(c) ==
    /\ seed[c].pc = "idle"
    /\ Len(seedLog) + Cardinality(SeedRunning) < MaxSeedCalls
    /\ request' = [endpoint |-> "seed_data"]
    /\ pre' = IF SeedRunning = {} THEN store ELSE pre
    /\ \E ok \in CountOutcomes :
         IF ok
         THEN LET count_products == IF db THEN count_documents(shoeproduct) ELSE 0
              IN  /\ seed' = [seed EXCEPT ![c] =
                        [pc |-> IF SeedProducts(count_products)
                                THEN "products" ELSE "count_reviews",
                         added_p |-> 0, added_r |-> 0]]
                  /\ response' = NoResponse
                  /\ UNCHANGED seedLog
         ELSE SeedRaises(c)
    /\ UNCHANGED <<db, shoeproduct, sitereview, contactmessage, order, served>>

seed_insert_product(c) ==
    /\ seed[c].pc = "products"
    /\ \E ok \in StoreOutcomes :
         IF ok
         THEN LET added_p == seed[c].added_p + 1
              IN  /\ shoeproduct' = Inserted(shoeproduct, sample_products[added_p])
                  /\ seed' = [seed EXCEPT ![c].added_p = added_p,
                                          ![c].pc = IF added_p = Len(sample_products)
                                                    THEN "count_reviews" ELSE "products"]
                  /\ UNCHANGED <<seedLog, response>>
         ELSE SeedRaises(c) /\ UNCHANGED shoeproduct
    /\ UNCHANGED <<db, sitereview, contactmessage, order, request, pre, served>>

seed_count_reviews(c) ==
    /\ seed[c].pc = "count_reviews"
    /\ \E ok \in CountOutcomes :
         IF ok
         THEN LET count_reviews == IF db THEN count_documents(sitereview) ELSE 0
              IN  IF SeedReviews(count_reviews)
                  THEN /\ seed' = [seed EXCEPT ![c].pc = "reviews"]
                       /\ UNCHANGED <<seedLog, response>>
                  ELSE SeedReturns(c, seed[c].added_p, 0, shoeproduct, sitereview)
         ELSE SeedRaises(c)
    /\ UNCHANGED <<db, shoeproduct, sitereview, contactmessage, order, request, pre, served>>

seed_insert_review(c) ==
    /\ seed[c].pc = "reviews"
    /\ \E ok \in StoreOutcomes :
         IF ok
         THEN LET added_r == seed[c].added_r + 1
                  stored == Inserted(sitereview, reviews[added_r])
              IN  /\ sitereview' = stored
                  /\ IF added_r = Len(reviews)
                     THEN SeedReturns(c, seed[c].added_p, added_r, shoeproduct, stored)
                     ELSE /\ seed' = [seed EXCEPT ![c].added_r = added_r]
                          /\ UNCHANGED <<seedLog, response>>
         ELSE SeedRaises(c) /\ UNCHANGED sitereview
    /\ UNCHANGED <<db, shoeproduct, contactmessage, order, request, pre, served>>

\* the request of client c begins while no other seed request runs
seed_alone(c) == SeedRunning = {} /\ seed_count_products(c)

\* store states a seed request may meet
EarlierProducts == {{}, Inserted({}, OtherProduct)}

EarlierReviews == {{}, Inserted({}, Sitereview("Meera", 40, "Nice."))}

InitSeed ==
    /\ db \in BOOLEAN
    /\ shoeproduct \in EarlierProducts
    /\ sitereview \in EarlierReviews
    /\ contactmessage = {} /\ order = {}
    /\ request = NoRequest /\ response = NoResponse
    /\ pre = store
    /\ served = 0
    /\ seed = [c \in Clients |-> SeedIdle]
    /\ seedLog = <<>>

\* seed requests one after the other
NextSeed ==
    \E c \in Clients :
        \/ seed_alone(c)
        \/ seed_insert_product(c)
        \/ seed_count_reviews(c)
        \/ seed_insert_review(c)

SpecSeed == InitSeed /\ [][NextSeed]_vars

InitSeedConcurrent ==
    /\ InitSeed
    /\ shoeproduct = {} /\ sitereview = {}

\* seed requests of several clients, their store calls interleaved
NextSeedConcurrent ==
    \E c \in Clients :
        \/ seed_count_products(c)
        \/ seed_insert_product(c)
        \/ seed_count_reviews(c)
        \/ seed_insert_review(c)

SpecSeedConcurrent == InitSeedConcurrent /\ [][NextSeedConcurrent]_vars

(* ------------------------------ order claims --------------------------- *)

OrderAccepted == response.endpoint = "create_order" /\ response.code = 200

\* the order document the last create_order request stored
StoredOrder == CHOOSE d \in order : d["_id"] = ObjectId(response.body.id)

RequestItems == The(request.body.items)

RequestItemsTotal ==
    SumSeq([i \in 1..Len(RequestItems) |->
              RequestItems[i].price * OrElse(RequestItems[i].quantity, 1)])

\* C1: in the order create_order stores, subtotal is the rounded sum of
\* price * quantity over the items and total is that rounded subtotal plus
\* shipping, whatever subtotal and total the client sent.
C1_TotalIsRoundedSubtotalPlusShipping ==
    OrderAccepted =>
        /\ StoredOrder.subtotal = Round2(RequestItemsTotal)
        /\ StoredOrder.total = Round2(StoredOrder.subtotal) + StoredOrder.shipping

\* C10: the response of create_order agrees with the order it stored: the
\* status, the upi_provider, and the amount of upi_link against the total.
C10_ResponseAgreesWithStoredOrder ==
    OrderAccepted =>
        /\ response.body.status = StoredOrder.status
        /\ Some(response.body.upi_provider) = StoredOrder.upi_provider
        /\ ParseFloat(response.body.upi_link.am) = StoredOrder.total

(* ------------------------------ validation claim ----------------------- *)

ContactRequest == request.endpoint = "create_contact"

OrderRequest == request.endpoint = "create_order"

EmailMissingOrWithoutAt ==
    \/ request.body.email = None
    \/ Count(The(request.body.email), "@") = 0

OrderViolatesSchema ==
    \/ request.body.items = None
    \/ \E i \in 1..Len(RequestItems) :
          RequestItems[i].quantity # None /\ The(RequestItems[i].quantity) < 1
    \/ request.body.subtotal = None \/ request.body.total = None
    \/ \E f \in {"subtotal", "shipping", "total"} :
          request.body[f] # None /\ The(request.body[f]) < 0
    \/ request.body.upi_provider \notin {None} \cup {Some(u) : u \in UpiProviders}
    \/ request.body.status \notin {None} \cup {Some(u) : u \in OrderStatuses}

Rejected == response.code = 422 /\ ~response.storeFailed /\ store = pre

OneDocumentAdded(name) ==
    /\ \E d \in store[name] : d \notin pre[name] /\ store[name] = pre[name] \cup {d}
    /\ \A other \in DOMAIN store \ {name} : store[other] = pre[other]

\* C8: a contact body without an email or with an email without "@", and an
\* order body that violates the Order schema, is rejected with 422 and the
\* store is as before; only such bodies are rejected; every accepted request
\* adds exactly one document to its collection.
C8_InvalidBodyRejectedBeforeStore ==
    /\ ContactRequest /\ EmailMissingOrWithoutAt => Rejected
    /\ OrderRequest /\ OrderViolatesSchema => Rejected
    /\ OrderRequest /\ response.code = 422 => OrderViolatesSchema
    /\ ContactRequest /\ response.code = 422 => ~ValidContactmessage(request.body)
    /\ ContactRequest /\ response.code = 200 => OneDocumentAdded("contactmessage")
    /\ OrderRequest /\ response.code = 200 => OneDocumentAdded("order")

C8_Witness ==
    /\ ContactRequest /\ request.body.email = Some(<<"a", "b", ".", "c">>)
    /\ request.body.name # None /\ request.body.message # None
    /\ Rejected /\ contactmessage # {}

(* ------------------------------ listing claim -------------------------- *)

ListAnswered == response.endpoint = "list_products" /\ response.code = 200

Elements(list) == {list[i] : i \in 1..Len(list)}

\* the predicates of the parameters that count as supplied
Satisfies(p, d, brandGiven, colorGiven) ==
    /\ brandGiven => d.brand = The(p.brand)
    /\ p.size # None => The(p.size) \in Elements(d.sizes)
    /\ colorGiven => The(p.color) \in Elements(d.colors)
    /\ p.min_price # None => d.price >= The(p.min_price)
    /\ p.max_price # None => d.price <= The(p.max_price)
    /\ p.is_new # None => d.is_new = The(p.is_new)
    /\ p.best # None => d.is_best_seller = The(p.best)

\* the response holds wanted documents only, and all of them up to the limit
Returns(wanted) ==
    /\ \A r \in response.body : \E d \in wanted : r.id = StrOid(d["_id"])
    /\ Cardinality(response.body) =
          IF Cardinality(wanted) < request.params.limit
          THEN Cardinality(wanted) ELSE request.params.limit

\* C4 as stated: list_products answers with the products that satisfy the
\* predicate of every parameter that was sent, brand and color included
\* whatever their value.
C4_EverySuppliedParameterFilters ==
    ListAnswered =>
        Returns({d \in shoeproduct :
                   Satisfies(request.params, d, request.params.brand # None,
                             request.params.color # None)})

\* C4 amended: a brand or color sent as the empty string counts as not sent;
\* every other parameter that was sent filters, false and 0 included.
C4_NonEmptySuppliedParameterFilters ==
    ListAnswered =>
        Returns({d \in shoeproduct :
                   Satisfies(request.params, d,
                             request.params.brand \notin {None, Some("")},
                             request.params.color \notin {None, Some("")})})

C4_Witness ==
    /\ ListAnswered
    /\ request.params.is_new = Some(FALSE) /\ request.params.brand = Some("Gucci")
    /\ \E d \in shoeproduct : d.brand = "Gucci" /\ d.is_new
    /\ response.body = {}

(* ------------------------------ point lookup claims -------------------- *)

ProductRequest == request.endpoint = "get_product"

\* C5: get_product answers with the stored product of that id, the id given
\* as the string field id, or with 404; a malformed id and an id of no
\* product give 404; it never answers with a server error and leaves the
\* store as it was.
C5_ProductOrNotFound ==
    ProductRequest =>
        /\ response.code \in {200, 404}
        /\ store = pre
        /\ ~OidParses(request.product_id) => response.code = 404
        /\ (OidParses(request.product_id)
              /\ ~\E d \in shoeproduct : d["_id"] = ObjectId(request.product_id))
           => response.code = 404
        /\ response.code = 200 =>
             \E d \in shoeproduct :
               /\ OidParses(request.product_id)
               /\ d["_id"] = ObjectId(request.product_id)
               /\ response.body.id = StrOid(d["_id"])
               /\ "_id" \notin DOMAIN response.body
               /\ \A k \in DOMAIN d \ ({"_id"} \cup DatetimeFields) :
                     response.body[k] = d[k]

C5_Witness ==
    /\ ProductRequest
    /\ Len(request.product_id) = OidLen /\ request.product_id[OidLen] = "g"
    /\ shoeproduct # {}
    /\ response.code = 404

\* C6: on every endpoint but the diagnostic one a store exception reaches the
\* caller as a server error; the diagnostic endpoint reports it in its answer.
C6_StoreErrorsPropagate ==
    response.storeFailed =>
        IF response.endpoint = "test_database"
        THEN response.code = 200
        ELSE response.code = 500

(* ------------------------------ seed claims ---------------------------- *)

SeedAnswered == response.endpoint = "seed_data" /\ response.code = 200

\* C2: of two seed calls in sequence that both return, the second reports 0
\* products and 0 reviews and leaves both document counts as the first did.
C2_SecondSeedAddsNothing ==
    \A i \in 1..(Len(seedLog) - 1) :
        seedLog[i].code = 200 /\ seedLog[i + 1].code = 200 =>
            /\ seedLog[i + 1].products = 0
            /\ seedLog[i + 1].reviews = 0
            /\ seedLog[i + 1].nproducts = seedLog[i].nproducts
            /\ seedLog[i + 1].nreviews = seedLog[i].nreviews

C2_Witness ==
    /\ Len(seedLog) = 2
    /\ seedLog[1].code = 200 /\ seedLog[2].code = 200
    /\ seedLog[1].products = 30 /\ seedLog[1].reviews = 3

Added(name) == store[name] \ pre[name]

\* C3: a seed call that runs alone adds 30 products and reports 30 exactly
\* when the product collection was empty at the call, else adds and reports
\* none; it adds 3 reviews and reports 3 exactly when the review collection
\* was empty, else none; each collection is decided on its own.
C3_SeedDecidesEachCollection ==
    SeedAnswered =>
        /\ \A name \in DOMAIN store : pre[name] \subseteq store[name]
        /\ Cardinality(Added("shoeproduct")) = response.body.products
        /\ Cardinality(Added("sitereview")) = response.body.reviews
        /\ response.body.products = IF pre.shoeproduct = {} THEN 30 ELSE 0
        /\ response.body.reviews = IF pre.sitereview = {} THEN 3 ELSE 0
        /\ Added("contactmessage") = {} /\ Added("order") = {}

C3_Witness ==
    /\ SeedAnswered
    /\ pre.shoeproduct # {} /\ pre.sitereview = {}
    /\ response.body = [products |-> 0, reviews |-> 3]
    /\ Cardinality(sitereview) = 3

\* C7: a write request that ends in an error leaves every collection as it
\* was before the request.
C7_FailedWriteLeavesStoreUnchanged ==
    (/\ request.endpoint \in {"create_contact", "create_order", "seed_data"}
     /\ response.code = 500)
        => store = pre

RECURSIVE Reported(_, _)
Reported(log, field) ==
    IF log = <<>> THEN 0
    ELSE (IF Head(log).code = 200 THEN Head(log)[field] ELSE 0)
            + Reported(Tail(log), field)

\* C9: however concurrent seed requests on empty collections interleave, the
\* product collection never holds more than 30 documents nor the review
\* collection more than 3, and the reported counts sum to at most 30 and 3.
C9_ConcurrentSeedsInsertOneBatch ==
    /\ Cardinality(shoeproduct) <= 30
    /\ Cardinality(sitereview) <= 3
    /\ Reported(seedLog, "products") <= 30
    /\ Reported(seedLog, "reviews") <= 3

====
